---- MODULE Spec2Model ----
(***************************************************************************)
(* Cybersecurity LMS API (main.py, schemas.py).                            *)
(*                                                                         *)
(* The request handlers are coroutines whose bodies contain no await       *)
(* expression: every storage call is a blocking call.  The event loop      *)
(* therefore runs each handler to completion before it starts another,     *)
(* and one action of this module is one whole handler invocation.          *)
(*                                                                         *)
(* A storage call either returns ("ok"), raises before it took effect      *)
(* ("raise"), or, for an insert, raises after the document was written     *)
(* ("raise_after_write").  The outcome of every call of a request is an    *)
(* input of the action.                                                    *)
(***************************************************************************)
EXTENDS Integers, Sequences, FiniteSets, TLC

VARIABLES db, store, nextOid, phase, seedRun, enrollLog, last, resp

vars == <<db, store, nextOid, phase, seedRun, enrollLog, last, resp>>

(***************************************************************************)
(* Bounds of the model                                                     *)
(***************************************************************************)
MaxEnrollCalls == 2
MaxSubmissions == 1

(***************************************************************************)
(* Values                                                                  *)
(***************************************************************************)
None == [none |-> TRUE]

Collections == {"course", "lesson", "quiz", "enrollment", "submission"}

ReadOutcomes == {"ok", "raise"}
WriteOutcomes == {"ok", "raise", "raise_after_write"}

Emails == {"ann@x.org", "bob@x.org"}

\* identifiers the store can generate within the bounds (four documents of
\* content, one per enroll request, one per submission) and one never generated
OidRange == 1..(4 + MaxEnrollCalls + MaxSubmissions + 1)

\* str(ObjectId): the string form of a generated identifier
str(oid) == "oid" \o ToString(oid)

\* ObjectId(s): parses the string form back, raises InvalidId on anything else
ObjectId(s) ==
    IF \E n \in OidRange : str(n) = s
    THEN [exc |-> "none", oid |-> CHOOSE n \in OidRange : str(n) = s]
    ELSE [exc |-> "InvalidId", oid |-> 0]

(***************************************************************************)
(* Sample fallback content                                                 *)
(***************************************************************************)
SAMPLE_COURSE ==
    [id |-> "sample-course-1",
     title |-> "Intro to Cybersecurity",
     description |-> "Learn fundamentals: CIA triad, threat landscape, basic defenses.",
     level |-> "Beginner",
     category |-> "Foundations",
     thumbnail |-> None]

SAMPLE_LESSONS ==
    << [id |-> "sample-lesson-1",
        course_id |-> SAMPLE_COURSE.id,
        title |-> "CIA Triad",
        content |-> "Confidentiality, Integrity, Availability - the pillars of security.",
        order |-> 1],
       [id |-> "sample-lesson-2",
        course_id |-> SAMPLE_COURSE.id,
        title |-> "Threats & Vulnerabilities",
        content |-> "Malware, phishing, misconfigurations, weak passwords.",
        order |-> 2] >>

SAMPLE_QUIZ ==
    [id |-> "sample-quiz-1",
     lesson_id |-> "sample-lesson-1",
     question |-> "What does CIA stand for in cybersecurity?",
     options |-> << "Confidentiality, Integrity, Availability",
                    "Control, Inspection, Analysis",
                    "Confidentiality, Identity, Access",
                    "Compliance, Integration, Auditing" >>,
     correct_option |-> 0]

(***************************************************************************)
(* Utilities                                                               *)
(***************************************************************************)
to_str_id(doc) ==
    IF doc = None THEN doc
    ELSE IF "_id" \in DOMAIN doc
         THEN [f \in (DOMAIN doc \ {"_id"}) \cup {"id"} |->
                  IF f = "id" THEN str(doc._id) ELSE doc[f]]
         ELSE doc

\* [to_str_id(d) for d in docs]
StrIds(docs) == [i \in 1..Len(docs) |-> to_str_id(docs[i])]


(***************************************************************************)
(* Storage accessor (database module) and driver calls                     *)
(***************************************************************************)
\* what a call does given the handle: every use of an unconfigured handle raises
Effective(handle, outcome) == IF handle = "None" THEN "raise" ELSE outcome

Matches(doc, filter) ==
    \A f \in DOMAIN filter : f \in DOMAIN doc /\ doc[f] = filter[f]

WithId(data, oid) ==
    [f \in DOMAIN data \cup {"_id"} |-> IF f = "_id" THEN oid ELSE data[f]]

\* create_document(collection, data) -> str id
create_document(handle, st, oid, coll, data, outcome) ==
    LET o == Effective(handle, outcome)
        written == [st EXCEPT ![coll] = Append(@, WithId(data, oid))]
    IN  CASE o = "ok" ->
               [exc |-> "none", store |-> written, next |-> oid + 1, id |-> str(oid)]
          [] o = "raise_after_write" ->
               [exc |-> "Exception", store |-> written, next |-> oid + 1, id |-> ""]
          [] OTHER ->
               [exc |-> "Exception", store |-> st, next |-> oid, id |-> ""]

\* get_documents(collection, filter, limit) -> list of documents
get_documents(handle, st, coll, filter, limit, outcome) ==
    IF Effective(handle, outcome) = "raise"
    THEN [exc |-> "Exception", docs |-> <<>>]
    ELSE LET found == SelectSeq(st[coll], LAMBDA d : Matches(d, filter))
         IN  [exc |-> "none",
              docs |-> IF limit > 0 /\ Len(found) > limit
                       THEN SubSeq(found, 1, limit) ELSE found]

\* db[collection].find_one(filter)
find_one(handle, st, coll, filter, outcome) ==
    IF Effective(handle, outcome) = "raise"
    THEN [exc |-> "Exception", doc |-> None]
    ELSE LET found == SelectSeq(st[coll], LAMBDA d : Matches(d, filter))
         IN  [exc |-> "none", doc |-> IF Len(found) > 0 THEN found[1] ELSE None]

\* db[collection].count_documents({})
count_documents(handle, st, coll, outcome) ==
    IF Effective(handle, outcome) = "raise"
    THEN [exc |-> "Exception", n |-> 0]
    ELSE [exc |-> "none", n |-> Len(st[coll])]

\* db.list_collection_names(): the collections that hold a document
list_collection_names(handle, st, outcome) ==
    IF Effective(handle, outcome) = "raise"
    THEN [exc |-> "Exception", names |-> {}]
    ELSE [exc |-> "none", names |-> {c \in Collections : Len(st[c]) > 0}]

EmptyStore == [c \in Collections |-> <<>>]

(***************************************************************************)
(* Availability prober                                                     *)
(***************************************************************************)
\* isinstance(x, list) of what list_collection_names returned
IsList(r) == r.exc = "none" /\ IsFiniteSet(r.names)

\* db is not None and isinstance(db.list_collection_names(), list) or True
db_available(handle, st, outcome) ==
    LET is_not_none == handle # "None"
        r == list_collection_names(handle, st, outcome)
    IN  IF is_not_none /\ r.exc # "none"
        THEN FALSE
        ELSE (is_not_none /\ IsList(r)) \/ TRUE

(***************************************************************************)
(* Seed data helper                                                        *)
(***************************************************************************)
\* the documents ensure_seed_data passes to create_document
SeedCourseData ==
    [title |-> SAMPLE_COURSE.title,
     description |-> SAMPLE_COURSE.description,
     level |-> SAMPLE_COURSE.level,
     category |-> SAMPLE_COURSE.category,
     thumbnail |-> SAMPLE_COURSE.thumbnail]

SeedLessonData(course_id, n) ==
    [course_id |-> course_id,
     title |-> SAMPLE_LESSONS[n].title,
     content |-> SAMPLE_LESSONS[n].content,
     order |-> n]

\* quiz data that keeps the sample quiz's own lesson_id
SeedQuizData_sample_lesson(l1_id) ==
    [lesson_id |-> SAMPLE_QUIZ.lesson_id,
     question |-> SAMPLE_QUIZ.question,
     options |-> SAMPLE_QUIZ.options,
     correct_option |-> SAMPLE_QUIZ.correct_option]

SeedQuizData(l1_id) ==
    [lesson_id |-> l1_id,
     question |-> SAMPLE_QUIZ.question,
     options |-> SAMPLE_QUIZ.options,
     correct_option |-> SAMPLE_QUIZ.correct_option]

\* probe: outcome of the prober's call; outs: outcomes of count_documents and
\* of the four create_document calls, in program order
ensure_seed_data(handle, st, oid, probe, outs) ==
    LET same == [store |-> st, next |-> oid]
    IN
    IF ~db_available(handle, st, probe) THEN same
    ELSE
    LET cnt == count_documents(handle, st, "course", outs[1])
    IN
    IF cnt.exc # "none" THEN same
    ELSE IF cnt.n # 0 THEN same
    ELSE
    LET c == create_document(handle, st, oid, "course", SeedCourseData, outs[2])
    IN
    IF c.exc # "none" THEN [store |-> c.store, next |-> c.next]
    ELSE
    LET l1 == create_document(handle, c.store, c.next, "lesson",
                              SeedLessonData(c.id, 1), outs[3])
    IN
    IF l1.exc # "none" THEN [store |-> l1.store, next |-> l1.next]
    ELSE
    LET l2 == create_document(handle, l1.store, l1.next, "lesson",
                              SeedLessonData(c.id, 2), outs[4])
    IN
    IF l2.exc # "none" THEN [store |-> l2.store, next |-> l2.next]
    ELSE
    LET q == create_document(handle, l2.store, l2.next, "quiz",
                             SeedQuizData(l1.id), outs[5])
    IN  [store |-> q.store, next |-> q.next]

(***************************************************************************)
(* Public endpoints with graceful DB fallback                              *)
(***************************************************************************)
\* a handler that returns body; exc names an exception that left the handler
Response(body) == [exc |-> "none", body |-> body]

root == Response([message |-> "Cybersecurity LMS API running"])

\* list_courses whose query is not inside the try block
list_courses_unguarded(handle, st, probe, outs) ==
    LET live == get_documents(handle, st, "course", <<>>, 0, outs[1])
    IN  IF ~db_available(handle, st, probe)
        THEN Response([items |-> <<SAMPLE_COURSE>>])
        ELSE IF live.exc # "none"
             THEN [exc |-> live.exc, body |-> None]
             ELSE Response([items |-> StrIds(live.docs)])

list_courses(handle, st, probe, outs) ==
    LET live == get_documents(handle, st, "course", <<>>, 0, outs[1])
    IN  IF db_available(handle, st, probe) /\ live.exc = "none"
        THEN Response([items |-> StrIds(live.docs)])
        ELSE Response([items |-> <<SAMPLE_COURSE>>])

\* x.get("order", 0)
OrderKey(x) == IF "order" \in DOMAIN x THEN x.order ELSE 0

\* list.sort(key=...): stable, ascending
RECURSIVE SortByOrder(_)
SortByOrder(s) ==
    IF Len(s) <= 1 THEN s
    ELSE LET m == CHOOSE i \in 1..Len(s) :
                     /\ \A j \in 1..Len(s) : OrderKey(s[i]) <= OrderKey(s[j])
                     /\ \A j \in 1..(i - 1) : OrderKey(s[j]) > OrderKey(s[i])
         IN  <<s[m]>> \o SortByOrder(SubSeq(s, 1, m - 1) \o SubSeq(s, m + 1, Len(s)))

\* list_lessons that falls back to the sample lessons for every course
list_lessons_sample_for_any_course(handle, st, course_id, probe, outs) ==
    LET live == get_documents(handle, st, "lesson", [course_id |-> course_id], 0, outs[1])
        lessons == SortByOrder(StrIds(live.docs))
    IN  IF db_available(handle, st, probe) /\ live.exc = "none" /\ Len(lessons) > 0
        THEN Response([items |-> lessons])
        ELSE Response([items |-> SAMPLE_LESSONS])

list_lessons(handle, st, course_id, probe, outs) ==
    LET live == get_documents(handle, st, "lesson", [course_id |-> course_id], 0, outs[1])
        lessons == SortByOrder(StrIds(live.docs))
    IN  IF db_available(handle, st, probe) /\ live.exc = "none" /\ Len(lessons) > 0
        THEN Response([items |-> lessons])
        ELSE IF course_id = SAMPLE_COURSE.id
             THEN Response([items |-> SAMPLE_LESSONS])
             ELSE Response([items |-> <<>>])

get_quiz(handle, st, lesson_id, probe, outs) ==
    LET live == get_documents(handle, st, "quiz", [lesson_id |-> lesson_id], 1, outs[1])
        quizzes == StrIds(live.docs)
    IN  IF db_available(handle, st, probe) /\ live.exc = "none" /\ Len(quizzes) > 0
        THEN Response([quiz |-> quizzes[1]])
        ELSE IF lesson_id = SAMPLE_QUIZ.lesson_id
             THEN Response([quiz |-> SAMPLE_QUIZ])
             ELSE Response([quiz |-> None])

\* enroll that inserts without looking for an existing enrollment
enroll_without_lookup(handle, st, oid, req, probe, outs) ==
    IF ~db_available(handle, st, probe)
    THEN [store |-> st, next |-> oid, resp |-> Response([status |-> "enrolled"])]
    ELSE LET c == create_document(handle, st, oid, "enrollment", req, outs[2])
         IN  [store |-> c.store, next |-> c.next,
              resp |-> Response([status |-> "enrolled"])]

\* enroll that answers "enrolled" without inserting the enrollment
enroll_without_insert(handle, st, oid, req, probe, outs) ==
    LET existing == find_one(handle, st, "enrollment",
                        [email |-> req.email, course_id |-> req.course_id], outs[1])
    IN  IF db_available(handle, st, probe) /\ existing.exc = "none"
           /\ existing.doc # None
        THEN [store |-> st, next |-> oid,
              resp |-> Response([status |-> "already_enrolled"])]
        ELSE [store |-> st, next |-> oid,
              resp |-> Response([status |-> "enrolled"])]

\* req: [name, email, course_id]; outs: outcomes of find_one and create_document
enroll(handle, st, oid, req, probe, outs) ==
    LET fallback == [store |-> st, next |-> oid,
                     resp |-> Response([status |-> "enrolled"])]
    IN
    IF ~db_available(handle, st, probe) THEN fallback
    ELSE
    LET existing == find_one(handle, st, "enrollment",
                        [email |-> req.email, course_id |-> req.course_id], outs[1])
    IN
    IF existing.exc # "none" THEN fallback
    ELSE IF existing.doc # None
    THEN [store |-> st, next |-> oid,
          resp |-> Response([status |-> "already_enrolled"])]
    ELSE
    LET c == create_document(handle, st, oid, "enrollment", req, outs[2])
    IN  [store |-> c.store, next |-> c.next,
         resp |-> Response([status |-> "enrolled"])]

\* the live branch of submit_quiz: q.get("correct_option") of the quiz found,
\* isNone when the prober, the parse or the lookup failed or found nothing
LiveCorrectOption(handle, st, quiz_id, probe, outcome) ==
    LET parsed == ObjectId(quiz_id)
        q == find_one(handle, st, "quiz", [_id |-> parsed.oid], outcome)
    IN  IF /\ db_available(handle, st, probe)
           /\ parsed.exc = "none"
           /\ q.exc = "none"
           /\ q.doc # None
           /\ "correct_option" \in DOMAIN q.doc
        THEN [isNone |-> FALSE, value |-> q.doc.correct_option]
        ELSE [isNone |-> TRUE, value |-> 0]

\* resolution that never uses the quiz found in storage
ResolveCorrectOption_sample_only(live, quiz_id) ==
    IF quiz_id = SAMPLE_QUIZ.id THEN SAMPLE_QUIZ.correct_option ELSE -1

\* correct_option after the fallback to the sample quiz logic
ResolveCorrectOption(live, quiz_id) ==
    IF ~live.isNone THEN live.value
    ELSE IF quiz_id = SAMPLE_QUIZ.id
         THEN SAMPLE_QUIZ.correct_option
         ELSE -1

Score(selected_option, correct_option) ==
    IF selected_option = correct_option THEN 1 ELSE 0

\* submit_quiz that persists the submission only when the quiz was found live
submit_quiz_persist_live_only(handle, st, oid, req, probes, outs) ==
    LET live == LiveCorrectOption(handle, st, req.quiz_id, probes[1], outs[1])
        correct_option == ResolveCorrectOption(live, req.quiz_id)
        score == Score(req.selected_option, correct_option)
        resp0 == Response([correct |-> score # 0, score |-> score])
    IN
    IF live.isNone \/ ~db_available(handle, st, probes[2])
    THEN [store |-> st, next |-> oid, resp |-> resp0]
    ELSE
    LET c == create_document(handle, st, oid, "submission",
                 [email |-> req.email,
                  quiz_id |-> req.quiz_id,
                  selected_option |-> req.selected_option,
                  score |-> score], outs[2])
    IN  [store |-> c.store, next |-> c.next, resp |-> resp0]

\* req: [email, quiz_id, selected_option]; probes: outcomes of the two prober
\* calls; outs: outcomes of find_one and create_document
submit_quiz(handle, st, oid, req, probes, outs) ==
    LET live == LiveCorrectOption(handle, st, req.quiz_id, probes[1], outs[1])
        correct_option == ResolveCorrectOption(live, req.quiz_id)
        score == Score(req.selected_option, correct_option)
        resp0 == Response([correct |-> score # 0, score |-> score])
    IN
    IF ~db_available(handle, st, probes[2])
    THEN [store |-> st, next |-> oid, resp |-> resp0]
    ELSE
    LET c == create_document(handle, st, oid, "submission",
                 [email |-> req.email,
                  quiz_id |-> req.quiz_id,
                  selected_option |-> req.selected_option,
                  score |-> score], outs[2])
    IN  [store |-> c.store, next |-> c.next, resp |-> resp0]

\* s.get("score", 0)
ScoreOf(s) == IF "score" \in DOMAIN s THEN s.score ELSE 0

\* get_progress that counts the submissions of every learner
get_progress_all_learners(handle, st, email, course_id, probe, outs) ==
    LET subs == get_documents(handle, st, "submission", <<>>, 0, outs[1])
        total == Len(subs.docs)
        correct == Len(SelectSeq(subs.docs, LAMBDA s : ScoreOf(s) = 1))
    IN  IF db_available(handle, st, probe) /\ subs.exc = "none"
        THEN Response([email |-> email, course_id |-> course_id,
                       quizzes_attempted |-> total, correct |-> correct])
        ELSE Response([email |-> email, course_id |-> course_id,
                       quizzes_attempted |-> 0, correct |-> 0])

get_progress(handle, st, email, course_id, probe, outs) ==
    LET subs == get_documents(handle, st, "submission", [email |-> email], 0, outs[1])
        total == Len(subs.docs)
        correct == Len(SelectSeq(subs.docs, LAMBDA s : ScoreOf(s) = 1))
    IN  IF db_available(handle, st, probe) /\ subs.exc = "none"
        THEN Response([email |-> email, course_id |-> course_id,
                       quizzes_attempted |-> total, correct |-> correct])
        ELSE Response([email |-> email, course_id |-> course_id,
                       quizzes_attempted |-> 0, correct |-> 0])

\* env: [url, name], whether DATABASE_URL and DATABASE_NAME are set;
\* outs: outcome of the handler's own list_collection_names call
test_database(handle, st, env, probe, outs) ==
    LET names == list_collection_names(handle, st, outs[1])
        available == db_available(handle, st, probe)
        database ==
            IF ~available THEN "Unavailable"
            ELSE IF names.exc = "none" THEN "Connected & Working"
            ELSE "Connected but Error"
    IN  Response([backend |-> "Running",
                  database |-> database,
                  database_url |-> IF env.url THEN "Set" ELSE "Not Set",
                  database_name |-> IF env.name THEN "Set" ELSE "Not Set",
                  connection_status |-> IF available THEN "Connected" ELSE "Not Connected",
                  collections |-> IF available /\ names.exc = "none"
                                  THEN names.names ELSE {}])

(***************************************************************************)
(* Inputs and initial contents                                             *)
(***************************************************************************)
\* content created by an administrator before the process starts: a course,
\* its two lessons inserted in descending order, a quiz on the first lesson
AdminStore(c) ==
    [EmptyStore EXCEPT
        !["course"] = << [_id |-> 1, title |-> "Network Defense",
                          description |-> "Firewalls and segmentation.",
                          level |-> "Intermediate", category |-> "Network",
                          thumbnail |-> None] >>,
        !["lesson"] = << [_id |-> 2, course_id |-> str(1), title |-> "Segmentation",
                          content |-> "VLANs and zones.", order |-> 2],
                         [_id |-> 3, course_id |-> str(1), title |-> "Firewalls",
                          content |-> "Packet filters and proxies.", order |-> 1] >>,
        !["quiz"] = << [_id |-> 4, lesson_id |-> str(3),
                        question |-> "Which device filters packets?",
                        options |-> <<"Firewall", "Switch", "Repeater", "Hub">>,
                        correct_option |-> c] >>]

InitialStores == {EmptyStore} \cup {AdminStore(c) : c \in {0, 1}}

DocCount(st) ==
    Len(st["course"]) + Len(st["lesson"]) + Len(st["quiz"])
        + Len(st["enrollment"]) + Len(st["submission"])

\* The outcomes of the storage calls of one try block, in program order: the
\* first call that raises ends the block, so the calls after it are not made.
\* kinds[i] says whether call i is a read or a write.
FailureModes(kind) ==
    IF kind = "write" THEN {"raise", "raise_after_write"} ELSE {"raise"}

FailurePlans(kinds) ==
    {[i \in DOMAIN kinds |-> "ok"]}
        \cup UNION {{[i \in DOMAIN kinds |-> IF i = k THEN m ELSE "ok"] :
                        m \in FailureModes(kinds[k])} : k \in DOMAIN kinds}

CourseIdInputs == {SAMPLE_COURSE.id, str(1), "unknown-course"}
LessonIdInputs == {SAMPLE_QUIZ.lesson_id, str(2), str(3), "unknown-id"}
QuizIdInputs == {SAMPLE_QUIZ.id, str(4), str(1), "not-an-id"}
\* the sentinel, the sample quiz's correct option, two other options
OptionInputs == {-1, 0, 1}
EnrollCourseInputs == {SAMPLE_COURSE.id, str(1)}

\* the storage of a request: "healthy" when the handle is configured and every
\* call returns, "unavailable" when the handle is unconfigured or every prober
\* call raises (no other call is then made), "partial" otherwise
Health(handle, probes, calls) ==
    IF handle # "None" /\ \A i \in DOMAIN calls : calls[i] = "ok" THEN "healthy"
    ELSE IF handle = "None" \/ \A i \in probes : calls[i] = "raise"
         THEN "unavailable"
         ELSE "partial"

(***************************************************************************)
(* State machine                                                           *)
(***************************************************************************)
Init ==
    /\ db \in {"Database", "None"}
    /\ store \in InitialStores
    /\ nextOid = DocCount(store) + 1
    /\ phase = "boot"
    /\ seedRun = "pending"
    /\ enrollLog = <<>>
    /\ last = [op |-> "none"]
    /\ resp = Response(None)

\* startup_event: runs once, before any request is served
Startup ==
    /\ phase = "boot"
    /\ \E plan \in FailurePlans(<<"read", "read", "write", "write", "write", "write">>) :
          LET r == ensure_seed_data(db, store, nextOid, plan[1], Tail(plan))
              health == Health(db, {1}, plan)
          IN  /\ store' = r.store
              /\ nextOid' = r.next
              /\ seedRun' = IF health = "healthy" /\ Len(store["course"]) = 0
                            THEN "healthy_on_empty" ELSE "other"
              /\ last' = [op |-> "startup", health |-> health]
    /\ phase' = "serving"
    /\ resp' = Response(None)
    /\ UNCHANGED <<db, enrollLog>>

Root ==
    /\ phase = "serving"
    /\ resp' = root
    /\ last' = [op |-> "root"]
    /\ UNCHANGED <<db, store, nextOid, phase, seedRun, enrollLog>>

ListCourses ==
    /\ phase = "serving"
    /\ \E plan \in FailurePlans(<<"read", "read">>) :
          /\ resp' = list_courses(db, store, plan[1], Tail(plan))
          /\ last' = [op |-> "list_courses", health |-> Health(db, {1}, plan)]
    /\ UNCHANGED <<db, store, nextOid, phase, seedRun, enrollLog>>

ListLessons ==
    /\ phase = "serving"
    /\ \E course_id \in CourseIdInputs, plan \in FailurePlans(<<"read", "read">>) :
          /\ resp' = list_lessons(db, store, course_id, plan[1], Tail(plan))
          /\ last' = [op |-> "list_lessons", course_id |-> course_id,
                      health |-> Health(db, {1}, plan)]
    /\ UNCHANGED <<db, store, nextOid, phase, seedRun, enrollLog>>

GetQuiz ==
    /\ phase = "serving"
    /\ \E lesson_id \in LessonIdInputs, plan \in FailurePlans(<<"read", "read">>) :
          /\ resp' = get_quiz(db, store, lesson_id, plan[1], Tail(plan))
          /\ last' = [op |-> "get_quiz", lesson_id |-> lesson_id,
                      health |-> Health(db, {1}, plan)]
    /\ UNCHANGED <<db, store, nextOid, phase, seedRun, enrollLog>>

PairCount(st, email, course_id) ==
    Len(SelectSeq(st["enrollment"],
                  LAMBDA d : d.email = email /\ d.course_id = course_id))

Enroll ==
    /\ phase = "serving"
    /\ Len(enrollLog) < MaxEnrollCalls
    /\ \E email \in Emails, course_id \in EnrollCourseInputs,
          plan \in FailurePlans(<<"read", "read", "write">>) :
          LET req == [name |-> "Learner", email |-> email, course_id |-> course_id]
              r == enroll(db, store, nextOid, req, plan[1], Tail(plan))
              health == Health(db, {1}, plan)
          IN  /\ store' = r.store
              /\ nextOid' = r.next
              /\ resp' = r.resp
              /\ last' = [op |-> "enroll", req |-> req, health |-> health]
              /\ enrollLog' = Append(enrollLog,
                                  [email |-> email, course_id |-> course_id,
                                   health |-> health,
                                   before |-> PairCount(store, email, course_id),
                                   exc |-> r.resp.exc,
                                   status |-> r.resp.body.status])
    /\ UNCHANGED <<db, phase, seedRun>>

\* the lookup and the persistence of submit_quiz are two try blocks, each
\* behind its own prober call
SubmitQuiz ==
    /\ phase = "serving"
    /\ Len(store["submission"]) < MaxSubmissions
    /\ \E email \in Emails, quiz_id \in QuizIdInputs, selected \in OptionInputs,
          lookup \in FailurePlans(<<"read", "read">>),
          persist \in FailurePlans(<<"read", "write">>) :
          LET req == [email |-> email, quiz_id |-> quiz_id, selected_option |-> selected]
              r == submit_quiz(db, store, nextOid, req,
                               <<lookup[1], persist[1]>>, <<lookup[2], persist[2]>>)
          IN  /\ store' = r.store
              /\ nextOid' = r.next
              /\ resp' = r.resp
              /\ last' = [op |-> "submit_quiz", req |-> req,
                          lookup_ok |-> Health(db, {1}, lookup) = "healthy",
                          persist_ok |-> Health(db, {1}, persist) = "healthy",
                          before |-> Len(store["submission"])]
    /\ UNCHANGED <<db, phase, seedRun, enrollLog>>

GetProgress ==
    /\ phase = "serving"
    /\ \E email \in Emails, plan \in FailurePlans(<<"read", "read">>) :
          /\ resp' = get_progress(db, store, email, SAMPLE_COURSE.id, plan[1], Tail(plan))
          /\ last' = [op |-> "get_progress", email |-> email,
                      health |-> Health(db, {1}, plan)]
    /\ UNCHANGED <<db, store, nextOid, phase, seedRun, enrollLog>>

TestDatabase ==
    /\ phase = "serving"
    /\ \E url \in BOOLEAN, name \in BOOLEAN, plan \in FailurePlans(<<"read", "read">>) :
          /\ resp' = test_database(db, store, [url |-> url, name |-> name],
                                   plan[1], Tail(plan))
          /\ last' = [op |-> "test_database", health |-> Health(db, {1}, plan)]
    /\ UNCHANGED <<db, store, nextOid, phase, seedRun, enrollLog>>

Next ==
    \/ Startup
    \/ Root
    \/ ListCourses
    \/ ListLessons
    \/ GetQuiz
    \/ Enroll
    \/ SubmitQuiz
    \/ GetProgress
    \/ TestDatabase

Spec == Init /\ [][Next]_vars

\* one kind of traffic after startup
NextEnroll == Startup \/ Enroll
SpecEnroll == Init /\ [][NextEnroll]_vars

NextQuiz == Startup \/ SubmitQuiz \/ GetProgress
SpecQuiz == Init /\ [][NextQuiz]_vars

NextRead == Startup \/ Root \/ ListCourses \/ ListLessons \/ GetQuiz \/ TestDatabase
SpecRead == Init /\ [][NextRead]_vars

(***************************************************************************)
(* Enrollment                                                              *)
(***************************************************************************)
\* C1: in every reachable state, whatever the order of the enroll requests
\* and whichever storage calls failed, the enrollment collection holds at
\* most one record per (email, course_id) pair.
AtMostOneEnrollmentPerPair ==
    \A email \in Emails, course_id \in EnrollCourseInputs :
        Cardinality({i \in 1..Len(store["enrollment"]) :
                        /\ store["enrollment"][i].email = email
                        /\ store["enrollment"][i].course_id = course_id}) <= 1

\* two enroll requests for one pair were handled and its record is stored once
RepeatedEnrollStoredOnce ==
    \E i, j \in 1..Len(enrollLog) :
        /\ i < j
        /\ enrollLog[i].email = enrollLog[j].email
        /\ enrollLog[i].course_id = enrollLog[j].course_id
        /\ PairCount(store, enrollLog[i].email, enrollLog[i].course_id) = 1

\* request i found no record of its pair, request i + 1 is for the same pair,
\* and storage was healthy for both
TwiceInLiveMode(i) ==
    /\ i + 1 <= Len(enrollLog)
    /\ enrollLog[i].email = enrollLog[i + 1].email
    /\ enrollLog[i].course_id = enrollLog[i + 1].course_id
    /\ enrollLog[i].health = "healthy"
    /\ enrollLog[i + 1].health = "healthy"
    /\ enrollLog[i].before = 0

\* C2: in live mode, of two enroll requests for one pair handled one after
\* the other the first returns "enrolled" and the second "already_enrolled",
\* and from then on storage holds exactly one record of the pair.
SecondEnrollAlreadyEnrolled ==
    \A i \in 1..Len(enrollLog) :
        TwiceInLiveMode(i) =>
            /\ enrollLog[i].status = "enrolled"
            /\ enrollLog[i + 1].status = "already_enrolled"
            /\ PairCount(store, enrollLog[i].email, enrollLog[i].course_id) = 1

EnrolledTwiceInLiveMode ==
    \E i \in 1..Len(enrollLog) :
        /\ TwiceInLiveMode(i)
        /\ enrollLog[i + 1].status = "already_enrolled"

(***************************************************************************)
(* Quiz submission and progress                                            *)
(***************************************************************************)
\* the stored quizzes whose public id is quiz_id
StoredQuizzes(quiz_id) ==
    {i \in 1..Len(store["quiz"]) : str(store["quiz"][i]._id) = quiz_id}

SubmittedHealthy ==
    last.op = "submit_quiz" /\ last.lookup_ok /\ last.persist_ok

\* C3: with storage healthy, a submission to a stored quiz returns
\* {correct: true, score: 1} when the selected option is the quiz's
\* correct_option and {correct: false, score: 0} for every other option.
StoredQuizScoredAgainstItsCorrectOption ==
    SubmittedHealthy =>
        \A i \in StoredQuizzes(last.req.quiz_id) :
            IF last.req.selected_option = store["quiz"][i].correct_option
            THEN resp.body = [correct |-> TRUE, score |-> 1]
            ELSE resp.body = [correct |-> FALSE, score |-> 0]

\* a stored quiz whose correct option is not the sample quiz's was answered
\* correctly
StoredQuizAnsweredCorrectly ==
    /\ SubmittedHealthy
    /\ \E i \in StoredQuizzes(last.req.quiz_id) :
          /\ store["quiz"][i].correct_option = 1
          /\ last.req.selected_option = 1
    /\ resp.body.score = 1

\* C4: in live mode, a submission whose quiz_id matches no stored quiz and is
\* not the sample quiz's id returns score 0 and correct false, whatever
\* option the request selects.
UnknownQuizScoresZero ==
    ( /\ SubmittedHealthy
      /\ StoredQuizzes(last.req.quiz_id) = {}
      /\ last.req.quiz_id # "sample-quiz-1" )
        => resp.body = [correct |-> FALSE, score |-> 0]

\* the submissions stored for a learner
SubmissionsOf(email) ==
    {i \in 1..Len(store["submission"]) : store["submission"][i].email = email}

ExpectedCorrectOption ==
    IF last.lookup_ok /\ StoredQuizzes(last.req.quiz_id) # {}
    THEN store["quiz"][CHOOSE i \in StoredQuizzes(last.req.quiz_id) : TRUE].correct_option
    ELSE IF last.req.quiz_id = "sample-quiz-1" THEN 0 ELSE -1

\* C9: the score submit_quiz returns is decided by the lookup alone, whether
\* or not the submission is persisted; and when storage is available at
\* persistence time and the insert succeeds, exactly one submission record
\* with the request's fields and the returned score is added, whichever
\* branch resolved the correct option.
ScoreIndependentOfPersistence ==
    last.op = "submit_quiz" =>
        /\ resp.body.score =
              (IF last.req.selected_option = ExpectedCorrectOption THEN 1 ELSE 0)
        /\ resp.body.correct = (resp.body.score = 1)
        /\ last.persist_ok =>
              /\ Len(store["submission"]) = last.before + 1
              /\ LET s == store["submission"][Len(store["submission"])]
                 IN  /\ s.email = last.req.email
                     /\ s.quiz_id = last.req.quiz_id
                     /\ s.selected_option = last.req.selected_option
                     /\ s.score = resp.body.score
        /\ Len(store["submission"]) \in {last.before, last.before + 1}

\* a submission resolved by the sample quiz after a failed lookup was persisted
FallbackSubmissionPersisted ==
    /\ last.op = "submit_quiz"
    /\ ~last.lookup_ok
    /\ last.persist_ok
    /\ last.req.quiz_id = "sample-quiz-1"
    /\ resp.body.score = 1
    /\ Len(store["submission"]) = last.before + 1

(***************************************************************************)
(* Fallback, error handling, seeding, prober                               *)
(***************************************************************************)
\* C5: with storage unavailable for the whole request, list_courses returns
\* exactly the one fallback course; list_lessons the two fallback lessons in
\* order 1, 2 for the fallback course id and an empty list otherwise;
\* get_quiz the fallback quiz (correct_option 0) for the fallback quiz's
\* lesson id and null otherwise.
UnavailableReadsReturnFallback ==
    /\ (last.op = "list_courses" /\ last.health = "unavailable") =>
          /\ Len(resp.body.items) = 1
          /\ resp.body.items[1].id = "sample-course-1"
          /\ resp.body.items[1].title = "Intro to Cybersecurity"
    /\ (last.op = "list_lessons" /\ last.health = "unavailable") =>
          IF last.course_id = "sample-course-1"
          THEN /\ Len(resp.body.items) = 2
               /\ resp.body.items[1].id = "sample-lesson-1"
               /\ resp.body.items[1].order = 1
               /\ resp.body.items[2].id = "sample-lesson-2"
               /\ resp.body.items[2].order = 2
          ELSE resp.body.items = <<>>
    /\ (last.op = "get_quiz" /\ last.health = "unavailable") =>
          IF last.lesson_id = "sample-lesson-1"
          THEN /\ resp.body.quiz.id = "sample-quiz-1"
               /\ resp.body.quiz.correct_option = 0
               /\ Len(resp.body.quiz.options) = 4
          ELSE resp.body.quiz = None

\* the prober's call raised on a configured handle while storage holds
\* lessons of the requested course, and the answer is the empty list
UnavailableWhileLessonsStored ==
    /\ last.op = "list_lessons"
    /\ last.health = "unavailable"
    /\ db = "Database"
    /\ \E i \in 1..Len(store["lesson"]) : store["lesson"][i].course_id = last.course_id
    /\ resp.body.items = <<>>

ReadPlans == FailurePlans(<<"read", "read">>)

\* C6: every endpoint handler completes with a normal response, whichever
\* storage calls fail (the prober's, any later one) and however malformed the
\* identifier: no exception leaves a handler, in the response given last and
\* in the response any handler would give in the current state.
NoStorageExceptionEscapes ==
    /\ resp.exc = "none"
    /\ root.exc = "none"
    /\ \A p \in ReadPlans :
          /\ list_courses(db, store, p[1], Tail(p)).exc = "none"
          /\ \A c \in CourseIdInputs :
                list_lessons(db, store, c, p[1], Tail(p)).exc = "none"
          /\ \A l \in LessonIdInputs :
                get_quiz(db, store, l, p[1], Tail(p)).exc = "none"
          /\ \A e \in Emails :
                get_progress(db, store, e, SAMPLE_COURSE.id, p[1], Tail(p)).exc = "none"
          /\ test_database(db, store, [url |-> TRUE, name |-> FALSE],
                           p[1], Tail(p)).exc = "none"
    /\ \A p \in FailurePlans(<<"read", "read", "write">>) :
          \A e \in Emails, c \in EnrollCourseInputs :
             enroll(db, store, nextOid, [name |-> "Learner", email |-> e, course_id |-> c],
                    p[1], Tail(p)).resp.exc = "none"
    /\ \A p \in ReadPlans, w \in FailurePlans(<<"read", "write">>) :
          \A e \in Emails, q \in QuizIdInputs, o \in OptionInputs :
             submit_quiz(db, store, nextOid,
                         [email |-> e, quiz_id |-> q, selected_option |-> o],
                         <<p[1], w[1]>>, <<p[2], w[2]>>).resp.exc = "none"

\* a handler answered although a storage call of its request raised after
\* the prober had reported storage available
AnsweredAfterFailedCall ==
    /\ last.op = "list_courses"
    /\ last.health = "partial"
    /\ resp.exc = "none"
    /\ resp.body.items = <<SAMPLE_COURSE>>

\* C7: when startup seeding ran with storage healthy and the course
\* collection empty, the course collection has exactly 1 document, the lesson
\* collection exactly 2 (order 1 and 2, both linked to the new course's
\* generated id) and the quiz collection exactly 1 (linked to the generated id
\* of the order-1 lesson, correct_option 0).
SeedingInsertsLinkedContent ==
    seedRun = "healthy_on_empty" =>
        /\ Len(store["course"]) = 1
        /\ Len(store["lesson"]) = 2
        /\ Len(store["quiz"]) = 1
        /\ {store["lesson"][i].order : i \in 1..2} = {1, 2}
        /\ \A i \in 1..2 : store["lesson"][i].course_id = str(store["course"][1]._id)
        /\ \E i \in 1..2 :
              /\ store["lesson"][i].order = 1
              /\ store["quiz"][1].lesson_id = str(store["lesson"][i]._id)
        /\ store["quiz"][1].correct_option = 0
        /\ Len(store["quiz"][1].options) = 4

SeededOnEmptyStore ==
    /\ seedRun = "healthy_on_empty"
    /\ phase = "serving"
    /\ Len(store["course"]) = 1

\* C10: db_available reports False when the introspection call raises or the
\* store handle is unconfigured (None), and True whenever the call returns.
ProberFalseOnAnyProbeFailure ==
    \A o \in ReadOutcomes :
        db_available(db, store, o) = (db # "None" /\ o # "raise")

====
